---- MODULE Spec2Model ----
(***************************************************************************)
(* Model of the BLE session manager of src/src/main.cpp: the class         *)
(* BluetoothManager (adapter resolution, device registry, connection       *)
(* lifecycle, GATT resolution, characteristic I/O and notifications) and   *)
(* the menu loop of main() that drives it.                                 *)
(*                                                                         *)
(* Strings (object paths, UUIDs, filters) are sequences of byte values, so *)
(* that std::string::find and the ordering of std::map keys are computed  *)
(* as the code computes them.  Interface and property names are only ever  *)
(* compared for equality and are TLA+ strings.                             *)
(***************************************************************************)
EXTENDS Integers, Sequences, FiniteSets, TLC

----------------------------------------------------------------------------
(* Bound of the model: the largest byte value of a payload.                *)
MaxByte == 1

----------------------------------------------------------------------------
(* Interface names, main.cpp lines 23-30.                                  *)
BLUEZ_SERVICE == "org.bluez"
ADAPTER_INTERFACE == "org.bluez.Adapter1"
DEVICE_INTERFACE == "org.bluez.Device1"
GATT_CHAR_INTERFACE == "org.bluez.GattCharacteristic1"
PROPERTIES_INTERFACE == "org.freedesktop.DBus.Properties"
OBJECT_MANAGER_INTERFACE == "org.freedesktop.DBus.ObjectManager"

----------------------------------------------------------------------------
(* std::string as a sequence of bytes.                                     *)

(* The empty std::string (a default-constructed or cleared string).        *)
EmptyStr == <<>>

(* s.find(t) != std::string::npos : t occurs in s as a contiguous run.     *)
Find(s, t) ==
  \E i \in 0..(Len(s) - Len(t)) : SubSeq(s, i + 1, i + Len(t)) = t

(* std::string operator< : lexicographic order on bytes, the key order of  *)
(* the std::map containers the code iterates.                              *)
StrLess(a, b) ==
  \E k \in 1..(Len(a) + 1) :
    /\ k <= Len(b)
    /\ \A j \in 1..(k - 1) : a[j] = b[j]
    /\ (k = Len(a) + 1 \/ a[k] < b[k])

(* The first key of a non-empty std::map in iteration order.               *)
FirstKey(S) == CHOOSE p \in S : \A q \in S : p = q \/ StrLess(p, q)

(* An empty std::map, and operator[] assignment m[k] = v (before it, an    *)
(* insertion that keeps the value of a key already present).               *)
EmptyMap == [x \in {} |-> EmptyStr]
MutPutKeepFirst(m, k, v) ==
  [x \in DOMAIN m \cup {k} |-> IF x \in DOMAIN m THEN m[x] ELSE v]
Put(m, k, v) == [x \in DOMAIN m \cup {k} |-> IF x = k THEN v ELSE m[x]]
Erase(m, k) == [x \in DOMAIN m \ {k} |-> m[x]]

(* "p is a descendant of d" in the object-path hierarchy: d followed by a  *)
(* '/' (byte 47) and at least one more byte is a prefix of p.              *)
IsDescendant(p, d) ==
  /\ Len(p) > Len(d) + 1
  /\ SubSeq(p, 1, Len(d)) = d
  /\ p[Len(d) + 1] = 47

----------------------------------------------------------------------------
(* The object paths, UUIDs and catalogs the model draws its inputs from.   *)
(* Bytes: '/'=47 '1'=49 '2'=50 '3'=51 '8'=56 'a'=97 'b'=98 'c'=99 'd'=100  *)
(* 'e'=101 'f'=102 'g'=103 'h'=104.                                        *)

AdapterG == <<47, 103>>                     \* "/g"
AdapterH == <<47, 104>>                     \* "/h"
DevA == <<47, 104, 47, 97>>                 \* "/h/a"
DevAB == <<47, 104, 47, 97, 98>>            \* "/h/ab"
CharAc == <<47, 104, 47, 97, 47, 99>>       \* "/h/a/c"
CharAd == <<47, 104, 47, 97, 47, 100>>      \* "/h/a/d"
CharABc == <<47, 104, 47, 97, 98, 47, 99>>  \* "/h/ab/c"
CharABe == <<47, 104, 47, 97, 98, 47, 101>> \* "/h/ab/e"

Uuid18 == <<49, 56>>                        \* "18"
Uuid2a == <<50, 97>>                        \* "2a"
Uuid3b == <<51, 98>>                        \* "3b"
UuidFf == <<102, 102>>                      \* "ff", carried by no object

AdapterObj == (ADAPTER_INTERFACE :> [Powered |-> TRUE])
DeviceObj(props) == (DEVICE_INTERFACE :> props)
CharObj(uuid) == (GATT_CHAR_INTERFACE :> ("UUID" :> uuid))
CharObjNoUuid == (GATT_CHAR_INTERFACE :> ("Flags" :> <<"read">>))

PropsA == ("Name" :> "Sensor") @@ ("Address" :> "AA") @@ ("UUIDs" :> <<Uuid18, Uuid2a>>)
PropsAB == ("Name" :> "Lamp")

(* A catalog without any adapter.                                          *)
CatNoAdapter == (DevA :> DeviceObj(PropsA))

(* Two adapters, one device with one characteristic.                       *)
CatOne ==
  (AdapterG :> AdapterObj) @@ (AdapterH :> AdapterObj) @@
  (DevA :> DeviceObj(PropsA)) @@
  (CharAc :> CharObj(Uuid18))

(* Two devices, the path of one containing the path of the other; two      *)
(* characteristics of the first device carry the same UUID.                *)
CatTwo ==
  (AdapterH :> AdapterObj) @@
  (DevA :> DeviceObj(PropsA)) @@ (DevAB :> DeviceObj(PropsAB)) @@
  (CharAc :> CharObj(Uuid18)) @@ (CharAd :> CharObj(Uuid18)) @@
  (CharABc :> CharObj(Uuid3b))

(* The first device is gone; one characteristic object has no UUID.        *)
CatGone ==
  (AdapterH :> AdapterObj) @@
  (DevAB :> DeviceObj(PropsAB)) @@
  (CharABc :> CharObj(Uuid3b)) @@ (CharABe :> CharObjNoUuid)

Catalogs == {CatNoAdapter, CatOne, CatTwo, CatGone}

DevicePaths == {DevA, DevAB}
CharPaths == {CharAc, CharAd, CharABc, CharABe}
Uuids == {Uuid18, Uuid3b, UuidFf}

Bytes == 0..MaxByte
Payloads == {<<>>} \cup {<<b>> : b \in Bytes}

----------------------------------------------------------------------------
(* State.                                                                  *)
VARIABLES
  pc,               \* position of main(): "start", "ready", "starting"
                    \* (blocked in the StartDiscovery call of scanDevices,
                    \* the registry cleared), "scanning" (in
                    \* the sleep of line 98), "connecting" (in the sleep of
                    \* line 204), "discovering" (in the sleeps of lines 254
                    \* and 316), "removing" (blocked in the RemoveDevice call
                    \* of line 300), "enabling" (blocked in the StartNotify
                    \* call), "exited" (return 0), "aborted" (exception
                    \* caught at line 696, return 1)
  bus,              \* the daemon's managed objects, what GetManagedObjects returns
  adapterPath,      \* BluetoothManager::adapterPath
  devices,          \* BluetoothManager::devices
  connectedDevice,  \* BluetoothManager::connectedDevice
  characteristics,  \* BluetoothManager::characteristics
  handlers,         \* signal handlers registered on live proxies
  pending,          \* argument of the call in flight: characteristicUUID of
                    \* enableNotify, devicePath of connectToDevice
                    \* and forgetDevice
  inflight,         \* the remote calls the call in flight has issued so far
  subscriptions,    \* UUIDs subscribed in the sense of the specification
  ended,            \* subscriptions that the last completed disconnect ended
  linked,           \* devices with a returned Connect and no returned
                    \* Disconnect since (the daemon's side of the links)
  traced,           \* which of the histories (subscriptions and ended,
                    \* linked) this behaviour records
  op,               \* the operation issued last
  arg,              \* its string argument
  result,           \* what it reported
  calls,            \* the remote calls it issued, in order
  reports,          \* the methods whose failure it reported
  listed,           \* the device paths it printed, in order
  event,            \* the property-change event dispatched last
  notified          \* the sink invocations that event caused

vars == <<pc, bus, adapterPath, devices, connectedDevice, characteristics,
          handlers, pending, inflight, subscriptions, ended, linked, traced,
          op, arg, result, calls, reports, listed, event, notified>>

(* The histories are no state of the program: a behaviour records the ones *)
(* named in traced and leaves the others empty.                            *)
Histories == {"subscriptions", "linked"}

Recorded(h, v) == IF h \in traced THEN v ELSE {}

session == <<adapterPath, devices, connectedDevice, characteristics>>

(* A remote call as the session issued it: method, object path, whether it *)
(* returned (ok) or raised sdbus::Error, the property value returned       *)
(* (ret), the bytes returned (value), the bytes and write type passed      *)
(* (data, wtype), the kind of error raised (err, "" when it returned), and  *)
(* the connected-device marker and characteristic map at the time of       *)
(* issue.                                                                  *)
CallWith(method, path, ok, ret, value, data, wtype, marker, chars) ==
  [method |-> method, path |-> path, ok |-> ok, ret |-> ret,
   value |-> value, data |-> data, wtype |-> wtype,
   err |-> IF ok THEN "" ELSE "other",
   marker |-> marker, chars |-> chars]

Call(method, path, ok, ret, marker, chars) ==
  CallWith(method, path, ok, ret, <<>>, <<>>, "", marker, chars)

NoEvent == [path |-> EmptyStr, hasValue |-> FALSE, value |-> <<>>]

(* A call that returned (err = "") or raised an error of the given kind.   *)
CallErr(method, path, err, marker, chars) ==
  [Call(method, path, err = "", "", marker, chars) EXCEPT !.err = err]

(* The methods of the calls that raised an error.                          *)
FailedMethods(c) == {c[i].method : i \in {j \in 1..Len(c) : ~c[j].ok}}

(* What every session operation records when it returns: rep is the set of *)
(* methods whose failure it reported (a message on std::cerr, or an        *)
(* exception that leaves the operation).                                   *)
ReportWith(o, a, r, c, rep) ==
  /\ op' = o
  /\ arg' = a
  /\ result' = r
  /\ calls' = c
  /\ reports' = rep
  /\ listed' = <<>>
  /\ event' = NoEvent
  /\ notified' = {}

(* The operations whose catch blocks print every sdbus::Error they catch.  *)
Report(o, a, r, c) == ReportWith(o, a, r, c, FailedMethods(c))

----------------------------------------------------------------------------
(* findAdapter, lines 51-63: the first object in path order that exposes   *)
(* the adapter interface; EmptyStr stands for the runtime_error of line 63.*)
RECURSIVE findAdapterLoop(_, _)
findAdapterLoop(objects, todo) ==
  IF todo = {} THEN EmptyStr
  ELSE LET path == FirstKey(todo) IN
       IF ADAPTER_INTERFACE \in DOMAIN objects[path]
       THEN path
       ELSE findAdapterLoop(objects, todo \ {path})

(* A loop without the return of line 61: the last adapter wins.           *)
MutFindAdapterLast(objects) ==
  LET A == {p \in DOMAIN objects : ADAPTER_INTERFACE \in DOMAIN objects[p]}
  IN IF A = {} THEN EmptyStr
     ELSE CHOOSE p \in A : \A q \in A : p = q \/ StrLess(q, p)

findAdapter(objects) == findAdapterLoop(objects, DOMAIN objects)

(* updateDeviceList, lines 116-122: every object exposing the device       *)
(* interface is assigned into the map that is passed in.                   *)
RECURSIVE updateDeviceListLoop(_, _, _)
updateDeviceListLoop(objects, todo, devs) ==
  IF todo = {} THEN devs
  ELSE LET path == FirstKey(todo) IN
       updateDeviceListLoop(objects, todo \ {path},
         IF DEVICE_INTERFACE \in DOMAIN objects[path]
         THEN Put(devs, path, objects[path][DEVICE_INTERFACE])
         ELSE devs)

updateDeviceList(objects, devs) ==
  updateDeviceListLoop(objects, DOMAIN objects, devs)

(* The test of line 335: the object path contains the device path.         *)
BelongsToDevice(pathStr, devicePath) == Find(pathStr, devicePath)

(* discoverServices, lines 328-348: the map is cleared, then every object  *)
(* in path order that passes the test of line 335, exposes the             *)
(* characteristic interface and has a UUID property is assigned under its  *)
(* UUID (a later object replaces an earlier one of the same UUID).         *)
RECURSIVE discoverServicesLoop(_, _, _, _)
discoverServicesLoop(objects, todo, devicePath, chars) ==
  IF todo = {} THEN chars
  ELSE LET path == FirstKey(todo) IN
       discoverServicesLoop(objects, todo \ {path}, devicePath,
         IF /\ BelongsToDevice(path, devicePath)
            /\ GATT_CHAR_INTERFACE \in DOMAIN objects[path]
            /\ "UUID" \in DOMAIN objects[path][GATT_CHAR_INTERFACE]
         THEN Put(chars, objects[path][GATT_CHAR_INTERFACE]["UUID"], path)
         ELSE chars)

discoverServices(objects, devicePath) ==
  discoverServicesLoop(objects, DOMAIN objects, devicePath, EmptyMap)

----------------------------------------------------------------------------
InitRecording(t) ==
  /\ pc = "start"
  /\ t \subseteq Histories
  /\ traced = t
  /\ inflight = <<>>
  /\ bus \in Catalogs
  /\ adapterPath = EmptyStr
  /\ devices = EmptyMap
  /\ connectedDevice = EmptyStr
  /\ characteristics = EmptyMap
  /\ handlers = {}
  /\ pending = EmptyStr
  /\ subscriptions = {}
  /\ ended = {}
  /\ linked = {}
  /\ op = "none"
  /\ arg = EmptyStr
  /\ result = "none"
  /\ calls = <<>>
  /\ reports = {}
  /\ listed = <<>>
  /\ event = NoEvent
  /\ notified = {}

Init == InitRecording({})

(* Where main() is while the event loop thread of processEvents (line     *)
(* 553) and the daemon run beside it: between two choices, in a sleep of   *)
(* scanDevices or connectToDevice, or blocked in the StartDiscovery call   *)
(* of scanDevices, in the RemoveDevice call of forgetDevice or in          *)
(* StartNotify.                                                            *)
Running ==
  {"ready", "starting", "scanning", "connecting", "discovering", "removing",
   "enabling"}

(* The daemon's object tree changes: adapters, devices and their           *)
(* characteristics appear and disappear, whatever the session holds.       *)
BusChange ==
  /\ pc \in Running
  /\ bus' \in Catalogs \ {bus}
  /\ Report("busChange", EmptyStr, "none", <<>>)
  /\ UNCHANGED <<pc, adapterPath, devices, connectedDevice, characteristics,
                 handlers, pending, subscriptions, ended, linked,
                 traced, inflight>>

(* main lines 583-586: construction of the manager.  A system bus that     *)
(* cannot be opened (line 35, before any remote call), a failed catalog    *)
(* fetch or a catalog without adapter throws to the handler of line 696.   *)
Startup ==
  /\ pc = "start"
  /\ \E busOk \in BOOLEAN, fetchOk \in BOOLEAN :
       LET c == <<Call("GetManagedObjects", <<47>>, fetchOk, "", EmptyStr, EmptyMap)>>
           a == findAdapter(bus)
       IN IF ~busOk
          THEN /\ ~fetchOk
               /\ pc' = "aborted"
               /\ adapterPath' = adapterPath
               /\ Report("startup", EmptyStr, "BusCommunicationError", <<>>)
          ELSE IF ~fetchOk
          THEN /\ pc' = "aborted"
               /\ adapterPath' = adapterPath
               /\ Report("startup", EmptyStr, "BusCommunicationError", c)
          ELSE IF a = EmptyStr
          THEN /\ pc' = "aborted"
               /\ adapterPath' = adapterPath
               /\ Report("startup", EmptyStr, "NoAdapterFound", c)
          ELSE /\ pc' = "ready"
               /\ adapterPath' = a
               /\ Report("startup", EmptyStr, "ok", c)
  /\ UNCHANGED <<bus, devices, connectedDevice, characteristics, handlers,
                 pending, subscriptions, ended, linked, traced, inflight>>

----------------------------------------------------------------------------
(* Device registry.                                                        *)

(* startDiscovery, lines 66-77: the StartDiscovery call; its error is      *)
(* printed at line 75.                                                     *)
startDiscovery(startOk, adapter, cd, chars) ==
  [calls |-> <<Call("StartDiscovery", adapter, startOk, "", cd, chars)>>,
   reports |-> IF startOk THEN {} ELSE {"StartDiscovery"}]

(* What the StopDiscovery call does: it returns, or raises the error of a  *)
(* discovery that is not running, or raises another error.                 *)
StopOutcomes == {"", "already_stopped", "other"}

(* stopDiscovery, lines 79-90: the StopDiscovery call; the catch block of  *)
(* lines 86-89 is empty, whatever the error.                               *)
stopDiscovery(oStop, adapter, cd, chars) ==
  [calls |-> <<CallErr("StopDiscovery", adapter, oStop, cd, chars)>>,
   reports |-> {}]

(* scanDevices, lines 94-95, and startDiscovery, line 70: the registry is  *)
(* cleared and the StartDiscovery call is issued; the caller is blocked in *)
(* it while the event loop thread and the daemon go on.                    *)
ScanBegin ==
  /\ pc = "ready"
  /\ devices' = EmptyMap
  /\ pc' = "starting"
  /\ Report("scan", EmptyStr, "pending", <<>>)
  /\ UNCHANGED <<bus, adapterPath, connectedDevice, characteristics, handlers,
                 pending, subscriptions, ended, linked, traced, inflight>>

(* startDiscovery, lines 70-76, and scanDevices, line 98: the              *)
(* StartDiscovery call returns or raises (startDiscovery catches and       *)
(* prints its sdbus::Error); then the caller sleeps for the scan duration  *)
(* while the event loop thread and the daemon go on.                       *)
ScanStarted ==
  /\ pc = "starting"
  /\ \E startOk \in BOOLEAN :
       LET a == startDiscovery(startOk, adapterPath, connectedDevice,
                               characteristics)
       IN /\ pc' = "scanning"
          /\ inflight' = a.calls
          /\ ReportWith("scan", EmptyStr, "pending", a.calls, a.reports)
  /\ UNCHANGED <<bus, adapterPath, devices, connectedDevice, characteristics,
                 handlers, pending, subscriptions, ended, linked, traced>>

(* scanDevices, lines 100-101, after the sleep: discovery is stopped       *)
(* (stopDiscovery catches its own sdbus::Error), then updateDeviceList     *)
(* fetches the catalog as it is now; the fetch is not inside any try block *)
(* of the class, so its error leaves scanDevices as an exception.  thrown  *)
(* is where that exception takes the caller.                               *)
ScanDevices(thrown) ==
  /\ pc = "scanning"
  /\ \E oStop \in StopOutcomes, fetchOk \in BOOLEAN :
       LET b == stopDiscovery(oStop, adapterPath, connectedDevice,
                              characteristics)
           f == Call("GetManagedObjects", <<47>>, fetchOk, "",
                     connectedDevice, characteristics)
           c == inflight \o b.calls \o <<f>>
           r == FailedMethods(inflight) \cup b.reports
                  \cup FailedMethods(<<f>>)
       IN IF fetchOk
          THEN /\ devices' = updateDeviceList(bus, devices)
               /\ pc' = "ready"
               /\ ReportWith("scan", EmptyStr, "ok", c, r)
          ELSE /\ devices' = devices
               /\ pc' = thrown
               /\ ReportWith("scan", EmptyStr, "exception", c, r)
  /\ inflight' = <<>>
  /\ UNCHANGED <<bus, adapterPath, connectedDevice, characteristics, handlers,
                 pending, subscriptions, ended, linked, traced>>

(* main, lines 597-603: choice 1.  The exception of scanDevices reaches    *)
(* the handler of line 696 and main returns.                               *)
Scan == ScanDevices("aborted")

(* scanDevices called by a caller that catches its exception: the object   *)
(* stays in use.                                                           *)
ScanCall == ScanDevices("ready")

(* updateDeviceList, lines 104-123, called on its own (it is a public      *)
(* method): the catalog is fetched and merged into the registry as it is.  *)
(* A fetch error leaves the method as an exception.                        *)
Refresh ==
  /\ pc = "ready"
  /\ \E fetchOk \in BOOLEAN :
       LET c == << Call("GetManagedObjects", <<47>>, fetchOk, "",
                        connectedDevice, characteristics) >>
       IN IF fetchOk
          THEN /\ devices' = updateDeviceList(bus, devices)
               /\ Report("refresh", EmptyStr, "ok", c)
          ELSE /\ devices' = devices
               /\ Report("refresh", EmptyStr, "exception", c)
  /\ UNCHANGED <<pc, bus, adapterPath, connectedDevice, characteristics,
                 handlers, pending, subscriptions, ended, linked,
                 traced, inflight>>

(* discoverServices, lines 313-352, called on its own (it is a public      *)
(* method), whatever the marker is: the catalog is fetched, then the map   *)
(* is cleared and refilled.  A fetch error leaves the method as an         *)
(* exception before the map is cleared.                                    *)
DiscoverServices ==
  /\ pc = "ready"
  /\ \E devicePath \in DevicePaths, fetchOk \in BOOLEAN :
       LET c == << Call("GetManagedObjects", <<47>>, fetchOk, "",
                        connectedDevice, characteristics) >>
       IN IF fetchOk
          THEN /\ characteristics' = discoverServices(bus, devicePath)
               /\ ended' = {}
               /\ Report("discover", devicePath, "ok", c)
          ELSE /\ characteristics' = characteristics
               /\ ended' = ended
               /\ Report("discover", devicePath, "exception", c)
  /\ UNCHANGED <<pc, bus, adapterPath, devices, connectedDevice, handlers,
                 pending, subscriptions, linked, traced, inflight>>

(* findAdapter, lines 39-64, called again on a constructed manager (it is  *)
(* a public method): adapterPath is resolved anew.  A fetch error, or a    *)
(* catalog without adapter (line 63), leaves the method as an exception    *)
(* and adapterPath as it was.                                              *)
FindAdapter ==
  /\ pc = "ready"
  /\ \E fetchOk \in BOOLEAN :
       LET c == << Call("GetManagedObjects", <<47>>, fetchOk, "",
                        connectedDevice, characteristics) >>
           a == findAdapter(bus)
       IN IF ~fetchOk
          THEN /\ adapterPath' = adapterPath
               /\ Report("findAdapter", EmptyStr, "BusCommunicationError", c)
          ELSE IF a = EmptyStr
          THEN /\ adapterPath' = adapterPath
               /\ Report("findAdapter", EmptyStr, "NoAdapterFound", c)
          ELSE /\ adapterPath' = a
               /\ Report("findAdapter", EmptyStr, "ok", c)
  /\ UNCHANGED <<pc, bus, devices, connectedDevice, characteristics, handlers,
                 pending, subscriptions, ended, linked, traced, inflight>>

(* startDiscovery and stopDiscovery called on their own (public methods).  *)
StartScan ==
  /\ pc = "ready"
  /\ \E startOk \in BOOLEAN :
       LET a == startDiscovery(startOk, adapterPath, connectedDevice,
                               characteristics)
       IN ReportWith("startScan", EmptyStr, IF startOk THEN "ok" ELSE "error",
                     a.calls, a.reports)
  /\ UNCHANGED <<pc, bus, adapterPath, devices, connectedDevice,
                 characteristics, handlers, pending, subscriptions, ended,
                 linked, traced, inflight>>

StopScan ==
  /\ pc = "ready"
  /\ \E oStop \in StopOutcomes :
       LET b == stopDiscovery(oStop, adapterPath, connectedDevice,
                              characteristics)
       IN ReportWith("stopScan", EmptyStr, IF oStop = "" THEN "ok" ELSE "silent",
                     b.calls, b.reports)
  /\ UNCHANGED <<pc, bus, adapterPath, devices, connectedDevice,
                 characteristics, handlers, pending, subscriptions, ended,
                 linked, traced, inflight>>

(* A filter that matches whole UUIDs only.                                 *)
MutPassesFilterExact(props, filterService) ==
  LET uuids == IF "UUIDs" \in DOMAIN props THEN props["UUIDs"] ELSE <<>>
  IN filterService = EmptyStr
       \/ \E i \in 1..Len(uuids) : uuids[i] = filterService

(* Lines 150-169: whether a device passes the filter of listDevices.       *)
PassesFilter(props, filterService) ==
  LET uuids == IF "UUIDs" \in DOMAIN props THEN props["UUIDs"] ELSE <<>>
  IN filterService = EmptyStr
       \/ \E i \in 1..Len(uuids) : Find(uuids[i], filterService)

(* listDevices, lines 136-189: the paths printed, in map order.            *)
RECURSIVE listDevicesLoop(_, _, _)
listDevicesLoop(devs, todo, filterService) ==
  IF todo = {} THEN <<>>
  ELSE LET path == FirstKey(todo) IN
       (IF PassesFilter(devs[path], filterService) THEN <<path>> ELSE <<>>)
         \o listDevicesLoop(devs, todo \ {path}, filterService)

listDevices(devs, filterService) ==
  listDevicesLoop(devs, DOMAIN devs, filterService)

(* The filters tried: none, "8", "2a", "2A" and "ff".                      *)
Filters == {EmptyStr, <<56>>, Uuid2a, <<50, 65>>, UuidFf}

ListDevices ==
  /\ pc = "ready"
  /\ \E filterService \in Filters :
       /\ op' = "list"
       /\ arg' = filterService
       /\ result' = IF DOMAIN devices = {} THEN "empty" ELSE "ok"
       /\ calls' = <<>>
       /\ reports' = {}
       /\ listed' = listDevices(devices, filterService)
       /\ event' = NoEvent
       /\ notified' = {}
  /\ UNCHANGED <<pc, bus, adapterPath, devices, connectedDevice,
                 characteristics, handlers, pending, subscriptions, ended, linked,
                 traced, inflight>>

----------------------------------------------------------------------------
(* Connection lifecycle.                                                   *)

(* connectToDevice with the marker assigned before the Connected value is  *)
(* tested.                                                                 *)
MutConnectMarkerBeforeTest(objects, devicePath, oConnect, oGet, oFetch, cd, chars) ==
  LET cConnect == Call("Connect", devicePath, oConnect, "", cd, chars)
      cGet == Call("Get", devicePath, oGet # "err",
                   IF oGet = "err" THEN "" ELSE oGet, cd, chars)
      cFetch == Call("GetManagedObjects", <<47>>, oFetch, "", devicePath, chars)
  IN IF ~oConnect
     THEN [cd |-> cd, chars |-> chars, ret |-> "false", calls |-> <<cConnect>>]
     ELSE IF oGet = "err"
     THEN [cd |-> cd, chars |-> chars, ret |-> "false",
           calls |-> <<cConnect, cGet>>]
     ELSE IF oGet = "false"
     THEN [cd |-> devicePath, chars |-> chars, ret |-> "false",
           calls |-> <<cConnect, cGet>>]
     ELSE IF ~oFetch
     THEN [cd |-> devicePath, chars |-> chars, ret |-> "false",
           calls |-> <<cConnect, cGet, cFetch>>]
     ELSE [cd |-> devicePath, chars |-> discoverServices(objects, devicePath),
           ret |-> "true", calls |-> <<cConnect, cGet, cFetch>>]

(* connectToDevice, lines 192-239.  oConnect: the Connect call returned;   *)
(* oGet: the read of Connected ("err", "true", "false"); oFetch: the       *)
(* catalog fetch of discoverServices returned.  The marker is assigned at  *)
(* line 217, before discoverServices runs; an sdbus::Error raised by the   *)
(* fetch (line 324) is caught at line 234.  The result is the new marker,  *)
(* the new characteristic map, the value returned and the calls issued.    *)
connectToDevice(objects, devicePath, oConnect, oGet, oFetch, cd, chars) ==
  LET cConnect == Call("Connect", devicePath, oConnect, "", cd, chars)
      cGet == Call("Get", devicePath, oGet # "err",
                   IF oGet = "err" THEN "" ELSE oGet, cd, chars)
      cFetch == Call("GetManagedObjects", <<47>>, oFetch, "", devicePath, chars)
  IN IF ~oConnect
     THEN [cd |-> cd, chars |-> chars, ret |-> "false", calls |-> <<cConnect>>]
     ELSE IF oGet # "true"
     THEN [cd |-> cd, chars |-> chars, ret |-> "false",
           calls |-> <<cConnect, cGet>>]
     ELSE IF ~oFetch
     THEN [cd |-> devicePath, chars |-> chars, ret |-> "false",
           calls |-> <<cConnect, cGet, cFetch>>]
     ELSE [cd |-> devicePath, chars |-> discoverServices(objects, devicePath),
           ret |-> "true", calls |-> <<cConnect, cGet, cFetch>>]

(* A call that is not issued has no outcome to draw: when skipped holds,   *)
(* only the default outcome is taken.                                      *)
NotIssued(skipped, isDefault) == skipped => isDefault

(* connectToDevice, lines 194-204: the Connect call; when it returned, the *)
(* caller sleeps 2 s while the event loop thread and the daemon go on.     *)
ConnectBegin ==
  /\ pc = "ready"
  /\ \E devicePath \in DevicePaths, oConnect \in BOOLEAN :
       LET r == connectToDevice(bus, devicePath, oConnect, "err", FALSE,
                                connectedDevice, characteristics)
       IN IF ~oConnect
          THEN /\ pc' = "ready"
               /\ pending' = pending
               /\ inflight' = inflight
               /\ linked' = linked
               /\ Report("connect", devicePath, r.ret, r.calls)
          ELSE /\ pc' = "connecting"
               /\ pending' = devicePath
               /\ inflight' = SubSeq(r.calls, 1, 1)
               /\ linked' = Recorded("linked", linked \cup {devicePath})
               /\ Report("connect", devicePath, "pending",
                         SubSeq(r.calls, 1, 1))
  /\ UNCHANGED <<bus, adapterPath, devices, connectedDevice, characteristics,
                 handlers, subscriptions, ended, traced>>

(* connectToDevice, lines 207-221 and 254: after the first sleep Connected *)
(* is read; when it is true the marker is assigned (line 217) and the      *)
(* caller sleeps again, 500 ms in requestMTU and 1 s in discoverServices   *)
(* (line 316), the map still the one it was.                               *)
ConnectCheck ==
  /\ pc = "connecting"
  /\ \E oGet \in {"err", "true", "false"} :
       LET r == connectToDevice(bus, pending, TRUE, oGet, FALSE,
                                connectedDevice, characteristics)
       IN /\ connectedDevice' = r.cd
          /\ IF oGet # "true"
             THEN /\ pc' = "ready"
                  /\ pending' = EmptyStr
                  /\ inflight' = <<>>
                  /\ ended' = ended
                  /\ Report("connect", pending, r.ret, r.calls)
             ELSE /\ pc' = "discovering"
                  /\ pending' = pending
                  /\ inflight' = SubSeq(r.calls, 1, 2)
                  /\ ended' = {}
                  /\ Report("connect", pending, "pending",
                            SubSeq(r.calls, 1, 2))
  /\ UNCHANGED <<bus, adapterPath, devices, characteristics, handlers,
                 subscriptions, linked, traced>>

(* connectToDevice, lines 224-238, and discoverServices, lines 319-351,    *)
(* after the sleeps: the catalog is fetched as it is now; when the fetch   *)
(* returned the map is cleared and refilled.                               *)
ConnectEnd ==
  /\ pc = "discovering"
  /\ \E oFetch \in BOOLEAN :
       LET r == connectToDevice(bus, pending, TRUE, "true", oFetch,
                                inflight[1].marker, characteristics)
       IN /\ connectedDevice' = r.cd
          /\ characteristics' = r.chars
          /\ Report("connect", pending, r.ret, r.calls)
  /\ pc' = "ready"
  /\ pending' = EmptyStr
  /\ inflight' = <<>>
  /\ UNCHANGED <<bus, adapterPath, devices, handlers, subscriptions, ended,
                 linked, traced>>

(* disconnectFromDevice without the characteristics.clear() of line 282.   *)
MutDisconnectKeepsMap(oDisconnect, cd, chars) ==
  IF cd = EmptyStr
  THEN [cd |-> cd, chars |-> chars, ret |-> "not_connected", calls |-> <<>>]
  ELSE LET c == Call("Disconnect", cd, oDisconnect, "", cd, chars)
       IN IF oDisconnect
          THEN [cd |-> EmptyStr, chars |-> chars, ret |-> "ok", calls |-> <<c>>]
          ELSE [cd |-> cd, chars |-> chars, ret |-> "error", calls |-> <<c>>]

(* disconnectFromDevice, lines 266-288: nothing without a marker;          *)
(* otherwise the Disconnect call, and lines 281-282 only when it returned. *)
disconnectFromDevice(oDisconnect, cd, chars) ==
  IF cd = EmptyStr
  THEN [cd |-> cd, chars |-> chars, ret |-> "not_connected", calls |-> <<>>]
  ELSE LET c == Call("Disconnect", cd, oDisconnect, "", cd, chars)
       IN IF oDisconnect
          THEN [cd |-> EmptyStr, chars |-> EmptyMap, ret |-> "ok",
                calls |-> <<c>>]
          ELSE [cd |-> cd, chars |-> chars, ret |-> "error", calls |-> <<c>>]

(* The subscriptions a completed disconnect ends, each with the path of    *)
(* its characteristic.                                                     *)
EndedBy(subs, chars) ==
  {[uuid |-> u, path |-> chars[u]] : u \in subs \cap DOMAIN chars}

Disconnect ==
  /\ pc = "ready"
  /\ \E oDisconnect \in BOOLEAN :
       LET r == disconnectFromDevice(oDisconnect, connectedDevice,
                                     characteristics)
       IN /\ NotIssued(connectedDevice = EmptyStr, ~oDisconnect)
          /\ connectedDevice' = r.cd
          /\ characteristics' = r.chars
          /\ subscriptions' = Recorded("subscriptions",
                 IF connectedDevice = EmptyStr
                              THEN subscriptions ELSE {})
          /\ ended' = IF r.ret = "ok"
                       THEN EndedBy(subscriptions, characteristics) ELSE ended
          /\ linked' = Recorded("linked",
                 IF r.ret = "ok" THEN linked \ {connectedDevice}
                        ELSE linked)
          /\ Report("disconnect", EmptyStr, r.ret, r.calls)
  /\ UNCHANGED <<pc, bus, adapterPath, devices, handlers, pending,
            traced, inflight>>

(* forgetDevice, lines 290-311: disconnectFromDevice when the path is the  *)
(* marker (it catches its own error), then RemoveDevice on the adapter,    *)
(* and the registry entry is erased only when that call returned.          *)
(* forgetDevice erasing the registry entry before the RemoveDevice call.   *)
MutForgetErasesAnyway(devicePath, oDisconnect, oRemove, cd, chars, devs) ==
  LET d == IF cd = devicePath
           THEN disconnectFromDevice(oDisconnect, cd, chars)
           ELSE [cd |-> cd, chars |-> chars, ret |-> "skipped", calls |-> <<>>]
      c == Call("RemoveDevice", adapterPath, oRemove, "", d.cd, d.chars)
  IN [cd |-> d.cd, chars |-> d.chars,
      devs |-> Erase(devs, devicePath),
      ret |-> IF oRemove THEN "ok" ELSE "error",
      calls |-> d.calls \o <<c>>]

forgetDevice(devicePath, oDisconnect, oRemove, cd, chars, devs) ==
  LET d == IF cd = devicePath
           THEN disconnectFromDevice(oDisconnect, cd, chars)
           ELSE [cd |-> cd, chars |-> chars, ret |-> "skipped", calls |-> <<>>]
      c == Call("RemoveDevice", adapterPath, oRemove, "", d.cd, d.chars)
  IN [cd |-> d.cd, chars |-> d.chars,
      devs |-> IF oRemove THEN Erase(devs, devicePath) ELSE devs,
      ret |-> IF oRemove THEN "ok" ELSE "error",
      calls |-> d.calls \o <<c>>]

(* forgetDevice, lines 292-300: when the path is the marker,               *)
(* disconnectFromDevice runs (the Disconnect call, and the clears of lines *)
(* 281-282 when it returned); then the RemoveDevice call is issued and the *)
(* caller is blocked in it while the event loop thread and the daemon go   *)
(* on.                                                                     *)
ForgetBegin ==
  /\ pc = "ready"
  /\ \E devicePath \in DevicePaths, oDisconnect \in BOOLEAN :
       LET r == forgetDevice(devicePath, oDisconnect, FALSE,
                             connectedDevice, characteristics, devices)
           issued == SubSeq(r.calls, 1, Len(r.calls) - 1)
       IN /\ NotIssued(connectedDevice # devicePath, ~oDisconnect)
          /\ connectedDevice' = r.cd
          /\ characteristics' = r.chars
          /\ subscriptions' = Recorded("subscriptions",
                 IF connectedDevice = devicePath
                              THEN {} ELSE subscriptions)
          /\ ended' = IF connectedDevice = devicePath /\ r.cd = EmptyStr
                       THEN EndedBy(subscriptions, characteristics) ELSE ended
          /\ linked' = Recorded("linked",
                 IF connectedDevice = devicePath /\ r.cd = EmptyStr
                        THEN linked \ {devicePath} ELSE linked)
          /\ pc' = "removing"
          /\ pending' = devicePath
          /\ inflight' = issued
          /\ Report("forgetBegin", devicePath, "pending", issued)
  /\ UNCHANGED <<bus, adapterPath, devices, handlers, traced>>

(* forgetDevice, lines 300-310: the RemoveDevice call returns or raises;   *)
(* the registry entry is erased (line 304) only when it returned.  The     *)
(* Disconnect call issued before it, if any, is the one of inflight.       *)
ForgetEnd ==
  /\ pc = "removing"
  /\ \E oRemove \in BOOLEAN :
       LET r == IF inflight = <<>>
                THEN forgetDevice(pending, FALSE, oRemove, connectedDevice,
                                  characteristics, devices)
                ELSE forgetDevice(pending, inflight[1].ok, oRemove,
                                  inflight[1].marker, inflight[1].chars,
                                  devices)
       IN /\ connectedDevice' = r.cd
          /\ characteristics' = r.chars
          /\ devices' = r.devs
          /\ Report("forget", pending, r.ret, r.calls)
  /\ pc' = "ready"
  /\ pending' = EmptyStr
  /\ inflight' = <<>>
  /\ UNCHANGED <<bus, adapterPath, handlers, subscriptions, ended, linked,
                 traced>>

----------------------------------------------------------------------------
(* Characteristic I/O and notifications.                                   *)

(* listCharacteristics, lines 354-397: one read of Flags per map entry in  *)
(* UUID order; a failed read is swallowed (line 391).                      *)
RECURSIVE listCharacteristicsLoop(_, _, _, _)
listCharacteristicsLoop(chars, todo, flagsOk, cd) ==
  IF todo = {} THEN <<>>
  ELSE LET uuid == FirstKey(todo) IN
       <<Call("Get", chars[uuid], flagsOk[uuid], "", cd, chars)>>
         \o listCharacteristicsLoop(chars, todo \ {uuid}, flagsOk, cd)

ListCharacteristics ==
  /\ pc = "ready"
  /\ \E flagsOk \in [DOMAIN characteristics -> BOOLEAN] :
       ReportWith("listCharacteristics", EmptyStr,
                  IF DOMAIN characteristics = {} THEN "empty" ELSE "ok",
                  listCharacteristicsLoop(characteristics,
                                          DOMAIN characteristics, flagsOk,
                                          connectedDevice),
                  {})
  /\ UNCHANGED <<pc, bus, adapterPath, devices, connectedDevice,
                 characteristics, handlers, pending, subscriptions, ended, linked,
                 traced, inflight>>

(* enableNotify, lines 399-433, up to the point where the StartNotify call *)
(* is on its way: the lookup, then the proxy charProxy of line 410 with    *)
(* the handler of line 418 registered on it.  While the session thread is  *)
(* blocked in the call, the event loop started at line 553 dispatches.     *)
EnableNotifyBegin ==
  /\ pc = "ready"
  /\ \E uuid \in Uuids :
       IF uuid \notin DOMAIN characteristics
       THEN /\ pc' = "ready"
            /\ handlers' = handlers
            /\ pending' = EmptyStr
            /\ Report("enableNotify", uuid, "not_found", <<>>)
       ELSE /\ pc' = "enabling"
            /\ handlers' = handlers \cup
                 {[path |-> characteristics[uuid], uuid |-> uuid]}
            /\ pending' = uuid
            /\ Report("enableNotify", uuid, "pending", <<>>)
  /\ UNCHANGED <<bus, adapterPath, devices, connectedDevice, characteristics,
                 subscriptions, ended, linked, traced, inflight>>

(* A proxy whose registration outlives it.                                 *)
MutProxyKeepsHandler(hs, path, uuid) == hs

(* What is left of the handlers of a proxy when the proxy goes out of      *)
(* scope: charProxy is a std::unique_ptr local to the try block of lines   *)
(* 409-434, and the registration made through it is owned by the proxy.    *)
ProxyReleased(hs, path, uuid) == hs \ {[path |-> path, uuid |-> uuid]}

(* enableNotify, lines 433-438: the StartNotify call returns or raises,    *)
(* and the try block is left.                                              *)
EnableNotifyEnd ==
  /\ pc = "enabling"
  /\ \E oStart \in BOOLEAN :
       LET path == characteristics[pending] IN
       /\ pc' = "ready"
       /\ handlers' = ProxyReleased(handlers, path, pending)
       /\ pending' = EmptyStr
       /\ subscriptions' = Recorded("subscriptions",
              IF oStart
                           THEN subscriptions \cup {pending}
                           ELSE subscriptions)
       /\ Report("enableNotify", pending, IF oStart THEN "ok" ELSE "error",
                 <<Call("StartNotify", path, oStart, "", connectedDevice,
                        characteristics)>>)
  /\ UNCHANGED <<bus, adapterPath, devices, connectedDevice, characteristics,
                 ended, linked, traced, inflight>>

(* disableNotify dropping the map entry of the UUID once StopNotify        *)
(* returned.                                                               *)
MutDisableNotifyErases ==
  /\ pc = "ready"
  /\ \E uuid \in Uuids, oStop \in BOOLEAN :
       /\ subscriptions' = Recorded("subscriptions",
              subscriptions \ {uuid})
       /\ characteristics' = IF uuid \in DOMAIN characteristics /\ oStop
                              THEN Erase(characteristics, uuid)
                              ELSE characteristics
       /\ IF uuid \notin DOMAIN characteristics
          THEN Report("disableNotify", uuid, "not_found", <<>>)
          ELSE Report("disableNotify", uuid, IF oStop THEN "ok" ELSE "error",
                      <<Call("StopNotify", characteristics[uuid], oStop, "",
                             connectedDevice, characteristics)>>)
  /\ UNCHANGED <<pc, bus, adapterPath, devices, connectedDevice,
                 handlers, pending, ended, linked, traced, inflight>>

(* disableNotify, lines 441-463.                                           *)
DisableNotify ==
  /\ pc = "ready"
  /\ \E uuid \in Uuids, oStop \in BOOLEAN :
       /\ NotIssued(uuid \notin DOMAIN characteristics, ~oStop)
       /\ subscriptions' = Recorded("subscriptions",
              subscriptions \ {uuid})
       /\ IF uuid \notin DOMAIN characteristics
          THEN Report("disableNotify", uuid, "not_found", <<>>)
          ELSE Report("disableNotify", uuid, IF oStop THEN "ok" ELSE "error",
                      <<Call("StopNotify", characteristics[uuid], oStop, "",
                             connectedDevice, characteristics)>>)
  /\ UNCHANGED <<pc, bus, adapterPath, devices, connectedDevice,
                 characteristics, handlers, pending, ended, linked,
                 traced, inflight>>

(* writeCharacteristic issuing the call again after an error.              *)
MutWriteRetries ==
  /\ pc = "ready"
  /\ \E uuid \in Uuids, data \in Payloads, oWrite \in BOOLEAN :
       LET c == CallWith("WriteValue", characteristics[uuid], oWrite, "",
                         <<>>, data, "request", connectedDevice,
                         characteristics)
       IN IF uuid \notin DOMAIN characteristics
          THEN Report("write", uuid, "not_found", <<>>)
          ELSE Report("write", uuid, IF oWrite THEN "ok" ELSE "error",
                      IF oWrite THEN <<c>> ELSE <<c, c>>)
  /\ UNCHANGED <<pc, bus, adapterPath, devices, connectedDevice,
                 characteristics, handlers, pending, subscriptions, ended, linked,
                 traced, inflight>>

(* writeCharacteristic, lines 465-495.                                     *)
Write ==
  /\ pc = "ready"
  /\ \E uuid \in Uuids, data \in Payloads, oWrite \in BOOLEAN :
       /\ NotIssued(uuid \notin DOMAIN characteristics,
                    ~oWrite /\ data = <<>>)
       /\ IF uuid \notin DOMAIN characteristics
          THEN Report("write", uuid, "not_found", <<>>)
          ELSE Report("write", uuid, IF oWrite THEN "ok" ELSE "error",
                      <<CallWith("WriteValue", characteristics[uuid], oWrite,
                                 "", <<>>, data, "request", connectedDevice,
                                 characteristics)>>)
  /\ UNCHANGED <<pc, bus, adapterPath, devices, connectedDevice,
                 characteristics, handlers, pending, subscriptions, ended, linked,
                 traced, inflight>>

(* main, lines 667-681: choice 10 with hex text that std::stoi (line 677)  *)
(* rejects, a token that is no hex number or one out of the range of int.  *)
(* The exception reaches the handler of line 696 before                    *)
(* writeCharacteristic is called, whatever the UUID typed.                 *)
WriteBadHex ==
  /\ pc = "ready"
  /\ \E uuid \in Uuids :
       /\ pc' = "aborted"
       /\ Report("hex", uuid, "exception", <<>>)
  /\ UNCHANGED <<bus, adapterPath, devices, connectedDevice, characteristics,
                 handlers, pending, subscriptions, ended, linked, traced,
                 inflight>>

(* readCharacteristic without the early return of lines 500-504.           *)
MutReadNoLookup ==
  /\ pc = "ready"
  /\ \E uuid \in Uuids, value \in Payloads, oRead \in BOOLEAN :
       Report("read", uuid, IF oRead THEN "ok" ELSE "error",
              <<CallWith("ReadValue",
                         IF uuid \in DOMAIN characteristics
                         THEN characteristics[uuid] ELSE EmptyStr,
                         oRead, "", IF oRead THEN value ELSE <<>>, <<>>, "",
                         connectedDevice, characteristics)>>)
  /\ UNCHANGED <<pc, bus, adapterPath, devices, connectedDevice,
                 characteristics, handlers, pending, subscriptions, ended, linked,
                 traced, inflight>>

(* readCharacteristic, lines 497-528.                                      *)
Read ==
  /\ pc = "ready"
  /\ \E uuid \in Uuids, value \in Payloads, oRead \in BOOLEAN :
       /\ NotIssued(uuid \notin DOMAIN characteristics, ~oRead)
       /\ NotIssued(~oRead, value = <<>>)
       /\ IF uuid \notin DOMAIN characteristics
          THEN Report("read", uuid, "not_found", <<>>)
          ELSE Report("read", uuid, IF oRead THEN "ok" ELSE "error",
                      <<CallWith("ReadValue", characteristics[uuid], oRead, "",
                                 IF oRead THEN value ELSE <<>>, <<>>, "",
                                 connectedDevice, characteristics)>>)
  /\ UNCHANGED <<pc, bus, adapterPath, devices, connectedDevice,
                 characteristics, handlers, pending, subscriptions, ended, linked,
                 traced, inflight>>

(* The handler of lines 420-431 applied to one PropertiesChanged signal:   *)
(* the sink invocation it makes, if any.                                   *)
signalHandler(characteristicUUID, hasValue, value) ==
  IF hasValue THEN {[uuid |-> characteristicUUID, value |-> value]} ELSE {}

(* A dispatch whose handler erases the entry of its UUID from the          *)
(* characteristic map.                                                     *)
MutDeliverErasesEntry ==
  /\ pc \in Running
  /\ \E path \in CharPaths \cap DOMAIN bus, hasValue \in BOOLEAN,
        value \in Payloads :
       LET hit == {g \in handlers : g.path = path} IN
       /\ hasValue \/ value = <<>>
       /\ op' = "deliver"
       /\ arg' = path
       /\ result' = "none"
       /\ calls' = <<>>
       /\ reports' = {}
       /\ listed' = <<>>
       /\ event' = [path |-> path, hasValue |-> hasValue, value |-> value]
       /\ notified' = UNION {signalHandler(h.uuid, hasValue, value) : h \in hit}
       /\ characteristics' =
            [u \in DOMAIN characteristics \ {h.uuid : h \in hit} |->
               characteristics[u]]
  /\ UNCHANGED <<pc, bus, adapterPath, devices, connectedDevice,
                 handlers, pending, subscriptions, ended, linked,
                 traced, inflight>>

(* The event loop thread (line 553) dispatches one PropertiesChanged       *)
(* signal of a characteristic object to the handlers registered for its    *)
(* path.  It touches nothing of the session.                               *)
Deliver ==
  /\ pc \in Running
  /\ \E path \in CharPaths \cap DOMAIN bus, hasValue \in BOOLEAN,
        value \in Payloads :
       /\ hasValue \/ value = <<>>
       /\ op' = "deliver"
       /\ arg' = path
       /\ result' = "none"
       /\ calls' = <<>>
       /\ reports' = {}
       /\ listed' = <<>>
       /\ event' = [path |-> path, hasValue |-> hasValue, value |-> value]
       /\ notified' = UNION {signalHandler(h.uuid, hasValue, value) :
                               h \in {g \in handlers : g.path = path}}
  /\ UNCHANGED <<pc, bus, adapterPath, devices, connectedDevice,
                 characteristics, handlers, pending, subscriptions, ended, linked,
                 traced, inflight>>

(* main, lines 685-687: choice 0.                                          *)
Exit ==
  /\ pc = "ready"
  /\ pc' = "exited"
  /\ subscriptions' = {}
  /\ Report("exit", EmptyStr, "ok", <<>>)
  /\ UNCHANGED <<bus, adapterPath, devices, connectedDevice, characteristics,
                 handlers, pending, ended, linked, traced, inflight>>

----------------------------------------------------------------------------
(* The session as main() drives it.                                        *)
Next ==
  \/ BusChange
  \/ Startup
  \/ ScanBegin
  \/ ScanStarted
  \/ Scan
  \/ ListDevices
  \/ ConnectBegin
  \/ ConnectCheck
  \/ ConnectEnd
  \/ Disconnect
  \/ ForgetBegin
  \/ ForgetEnd
  \/ ListCharacteristics
  \/ EnableNotifyBegin
  \/ EnableNotifyEnd
  \/ DisableNotify
  \/ Write
  \/ WriteBadHex
  \/ Read
  \/ Deliver
  \/ Exit

Spec == Init /\ [][Next]_vars

(* The same behaviours of main(), with the history of the subscriptions    *)
(* recorded, and with the history of the daemon's links recorded.          *)
SubscriptionSpec == InitRecording({"subscriptions"}) /\ [][Next]_vars

LinkSpec == InitRecording({"linked"}) /\ [][Next]_vars

(* The manager driven through its public methods by a caller that catches *)
(* what they throw: the steps of main, with scanDevices leaving the        *)
(* manager in use after its exception, and besides them updateDeviceList,  *)
(* startDiscovery, stopDiscovery, discoverServices and findAdapter called  *)
(* on their own.  requestMTU (lines 241-264) and processEvents write none  *)
(* of the variables.                                                       *)
NextApi ==
  \/ BusChange
  \/ Startup
  \/ ScanBegin
  \/ ScanStarted
  \/ ScanCall
  \/ ListDevices
  \/ ConnectBegin
  \/ ConnectCheck
  \/ ConnectEnd
  \/ Disconnect
  \/ ForgetBegin
  \/ ForgetEnd
  \/ ListCharacteristics
  \/ EnableNotifyBegin
  \/ EnableNotifyEnd
  \/ DisableNotify
  \/ Write
  \/ Read
  \/ Deliver
  \/ Exit
  \/ Refresh
  \/ StartScan
  \/ StopScan
  \/ DiscoverServices
  \/ FindAdapter

ApiSpec == Init /\ [][NextApi]_vars

(* A caller that uses the manager as a device registry only and never      *)
(* connects: construction, findAdapter, startDiscovery, stopDiscovery,     *)
(* scanDevices, updateDeviceList, listDevices and forgetDevice.  Its       *)
(* behaviours are behaviours of ApiSpec.                                   *)
NextRegistry ==
  \/ BusChange
  \/ Startup
  \/ FindAdapter
  \/ StartScan
  \/ StopScan
  \/ ScanBegin
  \/ ScanStarted
  \/ ScanCall
  \/ Refresh
  \/ ListDevices
  \/ ForgetBegin
  \/ ForgetEnd
  \/ Exit

RegistrySpec == Init /\ [][NextRegistry]_vars

----------------------------------------------------------------------------
(* Properties.                                                             *)

(* Some remote call of the operation issued last raised an error.          *)
SomeCallFailed == \E i \in 1..Len(calls) : ~calls[i].ok

(* The characteristic objects of a catalog below a device path, and their  *)
(* UUIDs.                                                                  *)
CharsBelow(objects, devicePath) ==
  {p \in DOMAIN objects :
     /\ GATT_CHAR_INTERFACE \in DOMAIN objects[p]
     /\ "UUID" \in DOMAIN objects[p][GATT_CHAR_INTERFACE]
     /\ IsDescendant(p, devicePath)}

UuidsBelow(objects, devicePath) ==
  {objects[p][GATT_CHAR_INTERFACE]["UUID"] : p \in CharsBelow(objects, devicePath)}

(* The device objects of a catalog.                                        *)
DevicesOf(objects) ==
  {p \in DOMAIN objects : DEVICE_INTERFACE \in DOMAIN objects[p]}

(* C1: when a remote call made by connect fails (Connect, the read of      *)
(* Connected, or the catalog fetch of GATT resolution), connect returns    *)
(* false, the session goes on, and the marker and the characteristic map   *)
(* are what they were when connect was called (the first call of connect   *)
(* is issued before anything is assigned).                                 *)
C1_ConnectFailureLeavesState ==
  (op = "connect" /\ SomeCallFailed) =>
    /\ result = "false"
    /\ pc = "ready"
    /\ connectedDevice = calls[1].marker
    /\ characteristics = calls[1].chars

(* C2: connect assigns the marker only after a read of Connected, issued   *)
(* after a Connect call that returned and while the marker still had its   *)
(* old value, returned true; when that read returns false, connect returns *)
(* false and the marker and the map are what they were before the call.    *)
C2_MarkerOnlyAfterConnectedTrue ==
  op = "connect" =>
    /\ connectedDevice # calls[1].marker =>
         /\ connectedDevice = arg
         /\ Len(calls) >= 2
         /\ calls[1].method = "Connect" /\ calls[1].ok
         /\ calls[2].method = "Get" /\ calls[2].ok /\ calls[2].ret = "true"
         /\ calls[2].marker = calls[1].marker
    /\ (Len(calls) >= 2 /\ calls[2].ret = "false") =>
         /\ result = "false"
         /\ Len(calls) = 2
         /\ connectedDevice = calls[1].marker
         /\ characteristics = calls[1].chars

(* connect(B) while A is connected with a loaded map, Connected read false:*)
(* the marker is still A.                                                  *)
C2_Witness ==
  /\ op = "connect"
  /\ Len(calls) = 2 /\ calls[2].ret = "false"
  /\ connectedDevice # EmptyStr /\ connectedDevice # arg
  /\ DOMAIN characteristics # {}

(* C3: disconnect called with a non-empty marker leaves the marker and the *)
(* characteristic map empty, whether the Disconnect call returned or       *)
(* raised an error.                                                        *)
C3_DisconnectAlwaysClears ==
  (op = "disconnect" /\ result # "not_connected") =>
    /\ connectedDevice = EmptyStr
    /\ DOMAIN characteristics = {}

(* C4: after connect(path) returned true the characteristic map holds      *)
(* exactly the UUIDs of the catalog's characteristic objects that are      *)
(* descendants of path, each mapped to such an object.                     *)
C4_MapIsDescendantsOfDevice ==
  (op = "connect" /\ result = "true") =>
    /\ DOMAIN characteristics = UuidsBelow(bus, arg)
    /\ \A u \in DOMAIN characteristics :
         characteristics[u] \in CharsBelow(bus, arg)

(* C5: the characteristic map is non-empty only if the connected-device    *)
(* marker is non-empty.                                                    *)
C5_MapOnlyWhenConnected ==
  DOMAIN characteristics # {} => connectedDevice # EmptyStr

(* A disconnect that found a loaded map and left both empty.               *)
C5_Witness ==
  /\ op = "disconnect" /\ result = "ok"
  /\ DOMAIN calls[1].chars # {}
  /\ connectedDevice = EmptyStr
  /\ DOMAIN characteristics = {}

(* C6: a failed remote call of an operation issued after startup does not  *)
(* end the session: the operation goes on or returns, and the next one is  *)
(* accepted.                                                               *)
C6_FailureNeverEndsSession ==
  (op # "startup" /\ SomeCallFailed) => pc \in Running

(* C7: read, write, enableNotify and disableNotify with a UUID that is not *)
(* a key of the characteristic map report not-found, issue no remote call  *)
(* and register no signal handler.                                         *)
C7_AbsentUuidNoRemoteCall ==
  (op \in {"read", "write", "enableNotify", "disableNotify"}
     /\ arg \notin DOMAIN characteristics) =>
    /\ result = "not_found"
    /\ calls = <<>>
    /\ handlers = {}
    /\ pc = "ready"

(* A read was refused for a UUID absent from a non-empty map.              *)
C7_Witness ==
  /\ op = "read"
  /\ result = "not_found"
  /\ arg \notin DOMAIN characteristics
  /\ DOMAIN characteristics # {}

(* C8: after refresh the device registry is exactly the set of catalog     *)
(* objects exposing the device interface, with their properties.           *)
C8_RefreshIsFullReplace ==
  (op = "refresh" /\ result = "ok") =>
    /\ DOMAIN devices = DevicesOf(bus)
    /\ \A p \in DOMAIN devices : devices[p] = bus[p][DEVICE_INTERFACE]

(* C9: forget(path) with path the marker: the RemoveDevice call is issued  *)
(* with the marker and the map empty, and afterwards the marker is not     *)
(* path.                                                                   *)
C9_ForgetDisconnectsFirst ==
  (op = "forget" /\ calls[1].marker = arg) =>
    LET rm == calls[Len(calls)] IN
    /\ rm.method = "RemoveDevice"
    /\ rm.marker = EmptyStr
    /\ rm.chars = EmptyMap
    /\ connectedDevice # arg

(* C10: while a subscription for a UUID exists, an event on its            *)
(* characteristic that carries a Value update invokes the sink with the    *)
(* UUID and the payload, and an event without Value invokes nothing.       *)
C10_SubscribedEventReachesSink ==
  op = "deliver" =>
    /\ event.hasValue =>
         \A u \in subscriptions :
           (u \in DOMAIN characteristics /\ characteristics[u] = event.path)
             => [uuid |-> u, value |-> event.value] \in notified
    /\ ~event.hasValue => notified = {}

(* C11: once a disconnect, or a forget of the connected device, has        *)
(* emptied the session state, no property-change event invokes the         *)
(* notification sink for a UUID that was subscribed during the connection  *)
(* it ended, although disableNotify was never called for it.               *)
C11_DisconnectEndsSubscriptions ==
  op = "deliver" =>
    \A s \in ended : \A n \in notified : n.uuid # s.uuid

(* C11 witness: after such a disconnect, a Value change of a               *)
(* characteristic whose subscription it ended is dispatched.               *)
C11_Witness ==
  /\ op = "deliver"
  /\ connectedDevice = EmptyStr
  /\ event.hasValue
  /\ \E s \in ended : s.path = event.path

(* C11 witness of the forget case: forget of the connected device has     *)
(* emptied the state and is blocked in its RemoveDevice call when a Value  *)
(* change of a characteristic whose subscription it ended is dispatched.   *)
C11_WitnessForget ==
  /\ op = "deliver"
  /\ pc = "removing"
  /\ connectedDevice = EmptyStr
  /\ DOMAIN characteristics = {}
  /\ event.hasValue
  /\ \E s \in ended : s.path = event.path

(* C12: a notification dispatch writes neither the device registry, nor    *)
(* the connected-device marker, nor the characteristic map, nor anything   *)
(* else the session operations read, so an operation interleaved with      *)
(* dispatches produces the state it produces without them.                 *)
C12_DispatchWritesNoSessionState ==
  [][op' = "deliver" =>
       /\ devices' = devices
       /\ connectedDevice' = connectedDevice
       /\ characteristics' = characteristics
       /\ adapterPath' = adapterPath
       /\ pc' = pc /\ pending' = pending /\ handlers' = handlers
       /\ inflight' = inflight]_vars

(* C12 witness: a dispatch that invoked the sink while the session thread  *)
(* was inside enableNotify, with a characteristic map loaded.              *)
C12_Witness ==
  /\ op = "deliver"
  /\ pc = "enabling"
  /\ notified # {}
  /\ DOMAIN characteristics # {}

(* C13: stopScan, called on its own or as a step of scan, swallows the     *)
(* failure of a discovery that is already stopped and reports every other  *)
(* failure of the StopDiscovery call.                                      *)
C13_StopScanReportsOtherFailure ==
  op \in {"scan", "stopScan"} =>
    \A i \in 1..Len(calls) :
      calls[i].method = "StopDiscovery" =>
        /\ calls[i].err = "already_stopped" => "StopDiscovery" \notin reports
        /\ calls[i].err = "other" => "StopDiscovery" \in reports

(* The UUIDs a device record advertises: those of its UUIDs property, and  *)
(* none when it has no such property.                                      *)
AdvertisedUuids(props) ==
  IF "UUIDs" \in DOMAIN props
  THEN {props["UUIDs"][i] : i \in 1..Len(props["UUIDs"])}
  ELSE {}

(* The paths listed are registry paths in strictly increasing path order,  *)
(* the order of list().                                                    *)
ListedInPathOrder ==
  /\ \A i \in 1..Len(listed) : listed[i] \in DOMAIN devices
  /\ \A i \in 1..Len(listed) : \A j \in 1..Len(listed) :
       i < j => StrLess(listed[i], listed[j])

(* C14 as stated: for every registry and every filter string, list(filter) *)
(* is a subset of list() in the same path order, and a device is listed    *)
(* if and only if one of its advertised UUIDs contains the filter as a     *)
(* case-sensitive substring, a device without a UUIDs property having      *)
(* none.                                                                   *)
C14_ListFilterAsStated ==
  op = "list" =>
    /\ ListedInPathOrder
    /\ \A d \in DOMAIN devices :
         (\E i \in 1..Len(listed) : listed[i] = d)
           <=> (\E u \in AdvertisedUuids(devices[d]) : Find(u, arg))

(* C14 amended: the same for every non-empty filter; the empty string     *)
(* is no filter, and lists every device of the registry.                   *)
C14_ListFilter ==
  op = "list" =>
    /\ ListedInPathOrder
    /\ \A d \in DOMAIN devices :
         (\E i \in 1..Len(listed) : listed[i] = d)
           <=> \/ arg = EmptyStr
               \/ \E u \in AdvertisedUuids(devices[d]) : Find(u, arg)

(* C14 witness: a registry of two devices listed with the filter "8",      *)
(* which only a part of one UUID of the first device matches.              *)
C14_Witness ==
  /\ op = "list"
  /\ arg = <<56>>
  /\ DOMAIN devices = {DevA, DevAB}
  /\ listed = <<DevA>>

(* The objects of a catalog that expose the adapter interface.             *)
AdaptersOf(objects) ==
  {p \in DOMAIN objects : ADAPTER_INTERFACE \in DOMAIN objects[p]}

(* What C15 says of the state a resolution of the adapter leaves.          *)
C15_Resolved ==
  /\ (op = "startup" /\ calls # <<>> /\ calls[1].ok) =>
       /\ (AdaptersOf(bus) = {}) <=> (result = "NoAdapterFound")
       /\ result = "NoAdapterFound" => pc = "aborted" /\ adapterPath = EmptyStr
       /\ AdaptersOf(bus) # {} =>
            /\ result = "ok" /\ pc = "ready"
            /\ adapterPath \in AdaptersOf(bus)
            /\ \A q \in AdaptersOf(bus) :
                 q = adapterPath \/ StrLess(adapterPath, q)
  /\ pc \in Running => adapterPath # EmptyStr

(* C15: for every catalog, resolving the adapter yields the first object   *)
(* in catalog (path) order that exposes the adapter interface, and fails   *)
(* with no-adapter-found exactly when no object exposes it; after that     *)
(* failure the session never reaches a state that accepts operations.      *)
C15_ResolveAdapterFirstOrFail ==
  /\ []C15_Resolved
  /\ [][pc = "aborted" => pc' = "aborted"]_vars

(* C15 witness: a catalog with two adapters resolved to the first one.     *)
C15_Witness ==
  /\ op = "startup"
  /\ result = "ok"
  /\ adapterPath = AdapterG
  /\ AdapterH \in AdaptersOf(bus)

(* C15 witness of the failure: a catalog without adapter.                  *)
C15_WitnessNone ==
  /\ op = "startup"
  /\ result = "NoAdapterFound"
  /\ pc = "aborted"

(* C16: in every reachable state in which the session accepts an           *)
(* operation, every path stored in the characteristic map contains the     *)
(* connected-device marker as a substring, so that no read is addressed to *)
(* a characteristic of a device A while the marker names a device B.       *)
C16_MapPathsContainMarker ==
  pc = "ready" =>
    \A u \in DOMAIN characteristics :
      Find(characteristics[u], connectedDevice)

(* C17: in every reachable state in which the session accepts an           *)
(* operation, the set of devices on which a Connect call returned and no   *)
(* Disconnect call has returned since is empty or is exactly the device    *)
(* the connected-device marker names, so that disconnect() reaches every   *)
(* connection the session made.                                            *)
C17_LinkedIsMarker ==
  pc = "ready" => (linked = {} \/ linked = {connectedDevice})

(* C18: when the RemoveDevice call of forget(path) fails, the failure is   *)
(* reported, the registry is as it was (path stays in it), and the marker  *)
(* and the characteristic map are as the preceding disconnect left them:   *)
(* emptied if it was issued and returned, untouched otherwise.  When the   *)
(* call succeeds, path is absent from the registry and every other entry   *)
(* is unchanged.  The disconnect is issued exactly when path was the       *)
(* marker, and while the RemoveDevice call is in flight (dispatches and    *)
(* changes of the daemon's tree included) the registry, the marker and the *)
(* map stay as the disconnect left them.                                   *)
C18_ForgetRemoveOutcome ==
  [][/\ pc' = "removing" => devices' = devices
     /\ (pc = "removing" /\ pc' = "removing") =>
          /\ connectedDevice' = connectedDevice
          /\ characteristics' = characteristics
     /\ op' = "forget" =>
          LET n == Len(calls')
              rm == calls'[n]
          IN /\ pc = "removing"
             /\ rm.method = "RemoveDevice"
             /\ n = 2 <=> calls'[1].marker = arg'
             /\ n = 2 => calls'[1].method = "Disconnect"
             /\ connectedDevice' = connectedDevice
             /\ characteristics' = characteristics
             /\ IF n = 2 /\ calls'[1].ok
                THEN connectedDevice' = EmptyStr /\ characteristics' = EmptyMap
                ELSE /\ connectedDevice' = calls'[1].marker
                     /\ characteristics' = calls'[1].chars
             /\ ~rm.ok =>
                  /\ result' = "error"
                  /\ "RemoveDevice" \in reports'
                  /\ devices' = devices
             /\ rm.ok =>
                  /\ arg' \notin DOMAIN devices'
                  /\ DOMAIN devices' = DOMAIN devices \ {arg'}
                  /\ \A p \in DOMAIN devices' : devices'[p] = devices[p]]_vars

(* C18 witness: forget of the connected device, in the registry, whose     *)
(* disconnect returned and whose RemoveDevice call failed.                 *)
C18_Witness ==
  /\ op = "forget"
  /\ result = "error"
  /\ Len(calls) = 2
  /\ calls[1].ok
  /\ connectedDevice = EmptyStr
  /\ arg \in DOMAIN devices
  /\ "RemoveDevice" \in reports

(* The characteristic objects of a catalog that discovery matches for a    *)
(* device path (the path test of line 335, the interface, a UUID), and     *)
(* the UUID of one of them.                                                *)
Matching(objects, devicePath) ==
  {p \in DOMAIN objects :
     /\ Find(p, devicePath)
     /\ GATT_CHAR_INTERFACE \in DOMAIN objects[p]
     /\ "UUID" \in DOMAIN objects[p][GATT_CHAR_INTERFACE]}

UuidOf(objects, p) == objects[p][GATT_CHAR_INTERFACE]["UUID"]

(* C19: after a discovery pass the map has one entry per distinct UUID     *)
(* among the matching characteristic objects; where several of them carry  *)
(* the same UUID, the entry holds the path of the one that comes last in   *)
(* catalog (path) order.                                                   *)
C19_LastWriteWins ==
  (op = "connect" /\ result = "true") =>
    LET M == Matching(bus, connectedDevice)
        U == {UuidOf(bus, p) : p \in M}
    IN /\ DOMAIN characteristics = U
       /\ Cardinality(DOMAIN characteristics) = Cardinality(U)
       /\ \A u \in U :
            /\ characteristics[u] \in M
            /\ UuidOf(bus, characteristics[u]) = u
            /\ \A q \in M : UuidOf(bus, q) = u =>
                 q = characteristics[u] \/ StrLess(q, characteristics[u])

(* C19 witness: two characteristics of the connected device carry the      *)
(* UUID "18"; the map holds the later one.                                 *)
C19_Witness ==
  /\ op = "connect"
  /\ result = "true"
  /\ connectedDevice = DevA
  /\ {CharAc, CharAd} \subseteq Matching(bus, DevA)
  /\ characteristics[Uuid18] = CharAd

(* C20: read(uuid) and write(uuid, bytes) for a UUID of the map issue      *)
(* exactly one remote call, addressed to the path the map holds for the    *)
(* UUID: ReadValue with an empty options map, WriteValue with the bytes    *)
(* and the option type "request"; on a remote error the failure is         *)
(* reported and the call is not issued a second time.                      *)
C20_OneCallNoRetry ==
  (op \in {"read", "write"} /\ arg \in DOMAIN characteristics) =>
    /\ Len(calls) = 1
    /\ calls[1].path = characteristics[arg]
    /\ op = "read" =>
         /\ calls[1].method = "ReadValue"
         /\ calls[1].wtype = ""
         /\ calls[1].data = <<>>
    /\ op = "write" =>
         /\ calls[1].method = "WriteValue"
         /\ calls[1].wtype = "request"
    /\ calls[1].ok => result = "ok" /\ reports = {}
    /\ ~calls[1].ok => result = "error" /\ reports = {calls[1].method}

(* C20 witness: a write of one byte to a UUID of the map whose call        *)
(* raised an error.                                                        *)
C20_Witness ==
  /\ op = "write"
  /\ arg \in DOMAIN characteristics
  /\ result = "error"
  /\ Len(calls) = 1
  /\ calls[1].data # <<>>
  /\ "WriteValue" \in reports

(* The operations C21 says only read the session state.                   *)
ReadOnlyOps ==
  {"list", "listCharacteristics", "read", "write", "enableNotify",
   "disableNotify"}

(* C21: list, listCharacteristics, read, write, enableNotify and           *)
(* disableNotify leave the device registry, the connected-device marker,   *)
(* the characteristic map and the adapter path unchanged, whether their    *)
(* remote calls return or raise; disconnect with an empty marker issues no *)
(* remote call and changes none of them either.                            *)
C21_FrameEffects ==
  [][/\ op' \in ReadOnlyOps =>
          /\ devices' = devices
          /\ connectedDevice' = connectedDevice
          /\ characteristics' = characteristics
          /\ adapterPath' = adapterPath
     /\ (op' = "disconnect" /\ connectedDevice = EmptyStr) =>
          /\ calls' = <<>>
          /\ result' = "not_connected"
          /\ devices' = devices
          /\ connectedDevice' = connectedDevice
          /\ characteristics' = characteristics
          /\ adapterPath' = adapterPath]_vars

(* C21 witness: a disableNotify whose StopNotify call returned, with a     *)
(* registry, a marker and a map that are not empty.                        *)
C21_Witness ==
  /\ op = "disableNotify"
  /\ result = "ok"
  /\ Len(calls) = 1
  /\ arg \in DOMAIN characteristics
  /\ connectedDevice # EmptyStr
  /\ DOMAIN devices # {}

(* C21 witness of the failing case: a read whose call raised.              *)
C21_WitnessFailed ==
  /\ op = "read"
  /\ result = "error"
  /\ DOMAIN characteristics # {}
  /\ connectedDevice # EmptyStr

(* C21 witness of the no-op: disconnect with an empty marker and a         *)
(* registry that is not empty.                                             *)
C21_WitnessNoDevice ==
  /\ op = "disconnect"
  /\ result = "not_connected"
  /\ calls = <<>>
  /\ DOMAIN devices # {}

====
